---- MODULE Spec2Model ----
(***************************************************************************)
(* Model of the Volta language server (vscode-volta): the document         *)
(* lifecycle handlers and the debounced validation pipeline of server.ts,  *)
(* the compiler bridge of voltaCompiler.ts, the compiler-path resolution   *)
(* of compilerPath.ts and the symbol query client of compilerInterface.ts  *)
(* with the hover / definition / signature-help handlers that use it.      *)
(***************************************************************************)
EXTENDS Integers, Sequences, FiniteSets, TLC

(***************************************************************************)
(* Bounds of the model.                                                    *)
(***************************************************************************)
MaxInflight == 2     \* validateTextDocument calls in progress together
MaxTimers == 3       \* timer handles alive together
MaxTemp == 2         \* distinct scratch-file names createTempFile may draw
TickMs == 500        \* largest step of the clock, in ms
MaxNotified == 2     \* "compiler not found" messages counted

URISeq == <<"file:///a.vlt", "file:///b.vlt">>
URIs == {URISeq[i] : i \in 1..Len(URISeq)}
Texts == {"A", "B"}
TempNames == 1..MaxTemp
MaxPromises == Cardinality(URIs) + MaxInflight

(***************************************************************************)
(* Program constants.                                                      *)
(***************************************************************************)
QuietPeriod == 1000
NoPath == "null"
DefaultCompilerPath == "volta"
CommonPaths ==
  << "/usr/local/bin/volta", "/usr/bin/volta", "~/.local/bin/volta",
     "/home/quantum/coding/Volta/bin/volta" >>

Min(a, b) == IF a < b THEN a ELSE b

(***************************************************************************)
(* compilerPath.ts: the environment is the set of executable files and     *)
(* the output of `which volta` ("" when it fails or prints nothing).       *)
(***************************************************************************)
Envs ==
  { [exec |-> {"/custom/a"}, which |-> ""],
    [exec |-> {"/usr/bin/volta", "/custom/a"}, which |-> "/stale/volta"] }

ConfiguredPaths == {"volta", "/custom/a"}

\* The environments and the settings the resolution is tried on: any set of
\* executable files among ExecutableFiles and any outcome of `which volta`.
ExecutableFiles ==
  {"volta", "/custom/a", "/opt/volta", "/usr/bin/volta", "~/.local/bin/volta"}
ResolveEnvs ==
  {[exec |-> x, which |-> w] : x \in SUBSET ExecutableFiles,
                               w \in {"", "/opt/volta", "/stale/volta"}}
ResolveInputs == {"missing", "", "volta", "/custom/a", "/custom/b"}

isExecutable(e, filePath) == filePath \in e.exec

RECURSIVE FirstExecutable(_, _, _)
FirstExecutable(e, paths, i) ==
  IF i > Len(paths) THEN NoPath
  ELSE IF isExecutable(e, paths[i]) THEN paths[i]
  ELSE FirstExecutable(e, paths, i + 1)

findVoltaCompilerPathFirst(e, configuredPath) ==
  IF e.which /= "" /\ isExecutable(e, e.which)
  THEN e.which
  ELSE IF configuredPath /= "" /\ configuredPath /= "volta" /\ isExecutable(e, configuredPath)
  THEN configuredPath
  ELSE FirstExecutable(e, CommonPaths, 1)
findVoltaCompiler(e, configuredPath) ==
  IF configuredPath /= "" /\ configuredPath /= "volta" /\ isExecutable(e, configuredPath)
  THEN configuredPath
  ELSE IF e.which /= "" /\ isExecutable(e, e.which)
  THEN e.which
  ELSE FirstExecutable(e, CommonPaths, 1)

(***************************************************************************)
(* voltaCompiler.ts: what the check of a text yields.  The compiler is a   *)
(* black box; its diagnostics are a function of the text it is given.      *)
(***************************************************************************)
LaunchFailure ==
  [severity |-> "Error", line |-> 0, start |-> 0, end |-> 0,
   message |-> "Failed to run Volta compiler", source |-> "volta"]

CheckDiagnostics(text) ==
  IF text = "A" THEN << >>
  ELSE << [severity |-> "Error", line |-> 2, start |-> 5, end |-> 7,
           message |-> "Type mismatch", source |-> "volta"] >>

NotPublished == [sent |-> FALSE, diagnostics |-> << >>]
Shown(diagnostics) == [sent |-> TRUE, diagnostics |-> diagnostics]

(***************************************************************************)
(* The text of a document as the position bridges read it: a string is a   *)
(* sequence of characters, and indices count from 0 as in the code.        *)
(***************************************************************************)
MaxLine == 2         \* largest cursor line of a request
MaxCol == 9          \* largest cursor character of a request

getText(t) ==
  IF t = "A"
  THEN << "f", "n", " ", "f", "(", "a", ",", "b", ")", "\n",
          "f", "(", "1", ",", "2" >>
  ELSE IF t = "B"
  THEN << "g", "(", "f", "(", "1", ",", "(", "\n",
          "\n",
          " ", "f", "n", " ", " ", "g", " ", "(", "x", ")" >>
  ELSE << >>

WordChars == {"f", "n", "g", "a", "b", "x", "1", "2", "_"}   \* \w
Spaces == {" ", "\t", "\n", "\r"}                                \* \s

Max(a, b) == IF a > b THEN a ELSE b

RECURSIVE split(_)
split(s) ==         \* s.split('\n')
  IF \A k \in 1..Len(s) : s[k] /= "\n" THEN << s >>
  ELSE LET k == CHOOSE k \in 1..Len(s) :
                  s[k] = "\n" /\ \A j \in 1..(k - 1) : s[j] /= "\n"
       IN  << SubSeq(s, 1, k - 1) >> \o split(SubSeq(s, k + 1, Len(s)))

substring(s, a, b) ==
  LET lo == Min(Max(a, 0), Len(s))
      hi == Min(Max(b, 0), Len(s))
  IN  SubSeq(s, Min(lo, hi) + 1, Max(lo, hi))

lastIndexOf(s, c) ==
  IF \A k \in 1..Len(s) : s[k] /= c THEN -1
  ELSE (CHOOSE k \in 1..Len(s) : s[k] = c /\ \A j \in (k + 1)..Len(s) : s[j] /= c) - 1

StartsAt(s, k, pat) ==
  /\ k + Len(pat) - 1 <= Len(s)
  /\ \A j \in 1..Len(pat) : s[k + j - 1] = pat[j]

indexOf(s, pat) ==
  IF \A k \in 1..Len(s) : ~StartsAt(s, k, pat) THEN -1
  ELSE (CHOOSE k \in 1..Len(s) :
          StartsAt(s, k, pat) /\ \A j \in 1..(k - 1) : ~StartsAt(s, j, pat)) - 1

\* The index after the longest run of characters of class that starts at k.
RunEnd(s, k, class) ==
  CHOOSE e \in k..(Len(s) + 1) :
    /\ \A j \in k..(e - 1) : s[j] \in class
    /\ e = Len(s) + 1 \/ s[e] \notin class

trim(s) ==
  IF \A k \in 1..Len(s) : s[k] \in Spaces THEN << >>
  ELSE LET a == CHOOSE k \in 1..Len(s) :
                  s[k] \notin Spaces /\ \A j \in 1..(k - 1) : s[j] \in Spaces
           b == CHOOSE k \in 1..Len(s) :
                  s[k] \notin Spaces /\ \A j \in (k + 1)..Len(s) : s[j] \in Spaces
       IN  SubSeq(s, a, b)

\* s.match(/(\w+)$/): group 1, or the empty string when there is no match.
matchTrailingWord(s) ==
  IF s = << >> \/ s[Len(s)] \notin WordChars THEN << >>
  ELSE LET a == CHOOSE k \in 1..Len(s) :
                  /\ \A j \in k..Len(s) : s[j] \in WordChars
                  /\ k = 1 \/ s[k - 1] \notin WordChars
       IN  SubSeq(s, a, Len(s))

\* /fn\s+(\w+)\s*\(/ tried at index k: group 1, or the empty string.  The
\* classes \s and \w are disjoint and hold no '(', so the greedy runs are the
\* only way to match.
fnMatchAt(s, k) ==
  IF ~StartsAt(s, k, << "f", "n" >>) THEN << >>
  ELSE LET a == RunEnd(s, k + 2, Spaces)
           b == RunEnd(s, a, WordChars)
           c == RunEnd(s, b, Spaces)
       IN  IF a > k + 2 /\ b > a /\ c <= Len(s) /\ s[c] = "("
           THEN SubSeq(s, a, b - 1) ELSE << >>

\* s.match(/fn\s+(\w+)\s*\(/): group 1 of the leftmost match.
fnMatch(s) ==
  IF \A k \in 1..Len(s) : fnMatchAt(s, k) = << >> THEN << >>
  ELSE fnMatchAt(s, CHOOSE k \in 1..Len(s) :
                      fnMatchAt(s, k) /= << >> /\ \A j \in 1..(k - 1) : fnMatchAt(s, j) = << >>)

NoDefinition == [line |-> -1, column |-> -1]

\* The loop over the lines that looks for the definition of functionName.
findDefinition(lines, functionName) ==
  LET hits == {i \in 1..Len(lines) : fnMatch(lines[i]) /= << >> /\ fnMatch(lines[i]) = functionName}
  IN  IF hits = {} THEN NoDefinition
      ELSE LET i == CHOOSE i \in hits : \A j \in hits : i <= j
           IN  [line |-> i, column |-> indexOf(lines[i], << "f", "n" >>) + 3]

commaCount(s) == Cardinality({k \in 1..Len(s) : s[k] = ","})

(***************************************************************************)
(* voltaCompiler.ts: parseCompilerErrors.  The lines the compiler may      *)
(* print on stderr are drawn from StderrLines.                             *)
(***************************************************************************)
MaxStderrLines == 2  \* lines of a stderr text

SampleLines ==
  [ RangeLine |->     \* start and end column
      << ":", "3", ":", "5", "-", "7", ":", " ", "e", "r", "r", "o", "r", ":", " ", "b", "a", "d" >>,
    PointLine |->     \* no end column, two-digit line
      << ":", "1", "0", ":", "2", ":", " ", "w", "a", "r", "n", "i", "n", "g", ":", " ", "u", "n", "u", "s", "e", "d" >>,
    ZeroEndLine |->     \* end column 0
      << ":", "1", ":", "4", "-", "0", ":", " ", "e", "r", "r", "o", "r", ":", " ", "x" >>,
    PaddedLine |->     \* line 0, message with blanks around it
      << ":", "0", ":", "0", ":", " ", "w", "a", "r", "n", "i", "n", "g", ":", " ", " ", " ", "p", "a", "d", " ", " " >>,
    BlankMessageLine |->     \* a message of one blank
      << ":", "3", ":", "5", ":", " ", "e", "r", "r", "o", "r", ":", " ", " " >>,
    NoMessageLine |->     \* no message at all
      << ":", "3", ":", "5", ":", " ", "e", "r", "r", "o", "r", ":", " " >>,
    CarriageLine |->     \* a line that ends in a carriage return
      << ":", "2", ":", "1", ":", " ", "e", "r", "r", "o", "r", ":", " ", "c", "r", "\r" >>,
    PrefixedLine |->     \* a file name before the first colon
      << "m", ".", "v", "l", "t", ":", "3", ":", "5", ":", " ", "e", "r", "r", "o", "r", ":", " ", "x" >>,
    ShiftedLine |->     \* digits and colons before the fragment
      << "a", ":", "1", ":", "2", ":", "3", ":", " ", "e", "r", "r", "o", "r", ":", " ", "y" >>,
    NoteLine |->     \* another tag
      << ":", "3", ":", "5", ":", " ", "n", "o", "t", "e", ":", " ", "x" >>,
    CapitalLine |->     \* the tag capitalised
      << ":", "3", ":", "5", ":", " ", "E", "r", "r", "o", "r", ":", " ", "x" >>,
    TightLine |->     \* no blank before the tag
      << ":", "3", ":", "5", ":", "e", "r", "r", "o", "r", ":", " ", "x" >>,
    DashLine |->     \* a dash without an end column
      << ":", "2", ":", "3", "-", ":", " ", "e", "r", "r", "o", "r", ":", " ", "x" >>,
    BannerLine |->     \* banner text
      << "C", "o", "m", "p", "i", "l", "i", "n", "g" >>,
    EmptyLine |->     \* a blank line
      << >> ]

StderrLines == {SampleLines[k] : k \in DOMAIN SampleLines}

Digits == {"0", "1", "2", "3", "4", "5", "6", "7", "8", "9"}   \* \d
LineTerminators == {"\n", "\r"}        \* what '.' does not match
ErrorTag == << "e", "r", "r", "o", "r" >>
WarningTag == << "w", "a", "r", "n", "i", "n", "g" >>

DigitValue(c) ==
  CASE c = "0" -> 0 [] c = "1" -> 1 [] c = "2" -> 2 [] c = "3" -> 3 [] c = "4" -> 4
    [] c = "5" -> 5 [] c = "6" -> 6 [] c = "7" -> 7 [] c = "8" -> 8 [] c = "9" -> 9

RECURSIVE parseInt(_)
parseInt(ds) ==        \* parseInt(ds, 10) of a run of digits
  IF ds = << >> THEN 0
  ELSE 10 * parseInt(SubSeq(ds, 1, Len(ds) - 1)) + DigitValue(ds[Len(ds)])

\* Join(ls): the lines joined by '\n', as the compiler's stderr carries them.
RECURSIVE Join(_)
Join(ls) ==
  IF Len(ls) = 1 THEN ls[1] ELSE ls[1] \o << "\n" >> \o Join(Tail(ls))

NoMatch ==
  [found |-> FALSE, index |-> 0, match1 |-> << >>, match2 |-> << >>,
   match3 |-> << >>, severityStr |-> << >>, message |-> << >>]

\* /:(\d+):(\d+)(?:-(\d+))?: (error|warning): (.+)/ tried at index k.  A run
\* of digits is followed by a character that is no digit, so the greedy runs
\* are the only way to match; match3 is empty when the group took no part.
errorRegexAt(s, k) ==
  IF k > Len(s) \/ s[k] /= ":" THEN NoMatch
  ELSE LET a == RunEnd(s, k + 1, Digits)
       IN  IF a = k + 1 \/ a > Len(s) \/ s[a] /= ":" THEN NoMatch
           ELSE LET b == RunEnd(s, a + 1, Digits)
                    hasEnd == /\ b <= Len(s)
                              /\ s[b] = "-"
                              /\ RunEnd(s, b + 1, Digits) > b + 1
                    c == IF hasEnd THEN RunEnd(s, b + 1, Digits) ELSE b
                    tag == IF StartsAt(s, c + 2, ErrorTag) THEN ErrorTag ELSE WarningTag
                    m == c + 2 + Len(tag) + 2
                    dot == {s[j] : j \in 1..Len(s)} \ LineTerminators
                IN  IF /\ b > a + 1
                       /\ StartsAt(s, c, << ":", " " >> \o tag \o << ":", " " >>)
                       /\ RunEnd(s, m, dot) > m
                    THEN [found |-> TRUE, index |-> k - 1,
                          match1 |-> SubSeq(s, k + 1, a - 1),
                          match2 |-> SubSeq(s, a + 1, b - 1),
                          match3 |-> IF hasEnd THEN SubSeq(s, b + 1, c - 1) ELSE << >>,
                          severityStr |-> tag,
                          message |-> SubSeq(s, m, RunEnd(s, m, dot) - 1)]
                    ELSE NoMatch

\* line.match(errorRegex): the leftmost match.
errorRegexAnchored(s) == errorRegexAt(s, 1)
errorRegex(s) ==
  IF \A k \in 1..Len(s) : ~errorRegexAt(s, k).found THEN NoMatch
  ELSE errorRegexAt(s, CHOOSE k \in 1..Len(s) :
                         /\ errorRegexAt(s, k).found
                         /\ \A j \in 1..(k - 1) : ~errorRegexAt(s, j).found)

lineNumOneBased(match1) == parseInt(match1)
lineNum(match1) == parseInt(match1) - 1

startCol(match2) == parseInt(match2)

endColByNumber(match3, start) ==
  IF match3 /= << >> /\ parseInt(match3) /= 0 THEN parseInt(match3) ELSE start + 1
endCol(match3, start) ==
  IF match3 /= << >> THEN parseInt(match3) ELSE start + 1

severityAlwaysError(severityStr) == "Error"
severity(severityStr) == IF severityStr = ErrorTag THEN "Error" ELSE "Warning"

\* The Diagnostic the loop builds from a match: its range runs from
\* (line, start) to (endLine, end).
Diagnostic(match) ==
  [severity |-> severity(match.severityStr),
   line |-> lineNum(match.match1),
   start |-> startCol(match.match2),
   endLine |-> lineNum(match.match1),
   end |-> endCol(match.match3, startCol(match.match2)),
   message |-> trim(match.message),
   source |-> "volta"]

RECURSIVE parseLines(_, _)
parseLines(lines, i) ==     \* the loop over lines, from line i on
  IF i > Len(lines) THEN << >>
  ELSE LET match == errorRegex(lines[i])
       IN  (IF match.found THEN << Diagnostic(match) >> ELSE << >>)
             \o parseLines(lines, i + 1)

parseCompilerErrors(stderr) == parseLines(split(stderr), 1)

\* The stderr texts of up to MaxStderrLines lines.
RECURSIVE LineSeqs(_)
LineSeqs(n) ==
  IF n = 0 THEN {<< >>}
  ELSE {<< l >> \o ls : l \in StderrLines, ls \in LineSeqs(n - 1)}
StderrInputs == UNION {LineSeqs(n) : n \in 1..MaxStderrLines}

NoParse == [input |-> << >>, stderr |-> << >>, ran |-> FALSE, diagnostics |-> << >>]

FilePathSeq == << "/a.vlt", "/b.vlt" >>
\* uri.replace('file://', '')
filePath(u) == FilePathSeq[CHOOSE k \in 1..Len(URISeq) : URISeq[k] = u]

(***************************************************************************)
(* compilerInterface.ts: the symbol query.  What the compiler prints is    *)
(* not the server's to decide: Stdouts are the kinds of output it can get. *)
(***************************************************************************)
Stdouts ==
  {"function", "unary", "procedure", "variable", "failure", "null", "garbage", ""}

NoSymbol ==
  [present |-> FALSE, name |-> "", type |-> "", signature |-> "",
   hasParameters |-> FALSE, parameters |-> << >>, documentation |-> "", returnDoc |-> ""]

Envelope(success, result, code) ==
  [null |-> FALSE, success |-> success, result |-> result, code |-> code]

JSONNull == [null |-> TRUE, success |-> FALSE, result |-> NoSymbol, code |-> ""]

FunctionSymbol ==
  [present |-> TRUE, name |-> "f", type |-> "fn(int, int) -> int",
   signature |-> "fn f(a: int, b: int) -> int", hasParameters |-> TRUE,
   parameters |-> << [name |-> "a", documentation |-> "left operand"],
                     [name |-> "b", documentation |-> ""] >>,
   documentation |-> "Adds two numbers", returnDoc |-> "the sum"]

UnarySymbol ==
  [present |-> TRUE, name |-> "g", type |-> "fn(int) -> int",
   signature |-> "fn g(x: int) -> int", hasParameters |-> TRUE,
   parameters |-> << [name |-> "x", documentation |-> ""] >>,
   documentation |-> "", returnDoc |-> ""]

ProcedureSymbol ==
  [present |-> TRUE, name |-> "g", type |-> "fn() -> void",
   signature |-> "fn g() -> void", hasParameters |-> TRUE,
   parameters |-> << >>, documentation |-> "", returnDoc |-> ""]

VariableSymbol ==
  [present |-> TRUE, name |-> "x", type |-> "int", signature |-> "x: int",
   hasParameters |-> FALSE, parameters |-> << >>, documentation |-> "", returnDoc |-> ""]

\* JSON.parse(stdout): throws on text that is not JSON, the empty text included.
JSONparse(stdout) ==
  IF stdout = "function" THEN [threw |-> FALSE, value |-> Envelope(TRUE, FunctionSymbol, "")]
  ELSE IF stdout = "unary" THEN [threw |-> FALSE, value |-> Envelope(TRUE, UnarySymbol, "")]
  ELSE IF stdout = "procedure" THEN [threw |-> FALSE, value |-> Envelope(TRUE, ProcedureSymbol, "")]
  ELSE IF stdout = "variable" THEN [threw |-> FALSE, value |-> Envelope(TRUE, VariableSymbol, "")]
  ELSE IF stdout = "failure" THEN [threw |-> FALSE, value |-> Envelope(FALSE, NoSymbol, "SYMBOL_NOT_FOUND")]
  ELSE IF stdout = "null" THEN [threw |-> FALSE, value |-> JSONNull]
  ELSE [threw |-> TRUE, value |-> JSONNull]

Pending == [settled |-> FALSE, value |-> JSONNull]

\* resolve of a promise: only the first call settles it.
resolve(promise, value) ==
  IF promise.settled THEN promise ELSE [settled |-> TRUE, value |-> value]

\* process.on('close')
onClose(promise, stdout) ==
  LET parsed == JSONparse(stdout)
  IN  IF parsed.threw THEN resolve(promise, Envelope(FALSE, NoSymbol, "PARSE_ERROR"))
      ELSE resolve(promise, parsed.value)

onErrorAsParse(promise) == resolve(promise, Envelope(FALSE, NoSymbol, "PARSE_ERROR"))

\* process.on('error')
onError(promise) == resolve(promise, Envelope(FALSE, NoSymbol, "SPAWN_ERROR"))

(***************************************************************************)
(* server.ts: the position bridges.  Each handler has a synchronous part,  *)
(* which answers at once or spawns a query, and a continuation that turns  *)
(* the query's result into the answer.                                     *)
(***************************************************************************)
NullReply ==
  [kind |-> "null", text |-> << >>, uri |-> "", line |-> 0, character |-> 0,
   endLine |-> 0, endCharacter |-> 0,
   signatures |-> << >>, activeSignature |-> 0, activeParameter |-> 0]
Rejected == [NullReply EXCEPT !.kind = "rejected"]

NoArgs == [compilerPath |-> NoPath, filePath |-> "", line |-> 0, column |-> 0]
Answer(reply) == [spawn |-> FALSE, args |-> NoArgs, commas |-> 0, reply |-> reply]
Query(path, file, line, column, commas) ==
  [spawn |-> TRUE,
   args |-> [compilerPath |-> path, filePath |-> file, line |-> line, column |-> column],
   commas |-> commas, reply |-> NullReply]

onHover(path, docs, u, line, character) ==
  IF path = NoPath THEN Answer(NullReply)
  ELSE IF ~docs[u].open THEN Answer(NullReply)
  ELSE Query(path, filePath(u), line + 1, character, 0)

BT == "<backtick>"     \* the backquote character of the markdown

RECURSIVE paramLines(_, _)
paramLines(ps, k) ==
  IF k > Len(ps) THEN << >>
  ELSE << "- ", BT, ps[k].name, BT, ": ", ps[k].documentation, "\n" >>
       \o paramLines(ps, k + 1)

markdown(info) ==
  LET withDocs == SelectSeq(info.parameters, LAMBDA q : q.documentation /= "")
  IN  << "**", info.name, "**: ", BT, info.type, BT, "\n\n",
         BT, BT, BT, "volta\n", info.signature, "\n", BT, BT, BT >>
      \o (IF info.documentation /= "" THEN << "\n\n", info.documentation >> ELSE << >>)
      \o (IF info.hasParameters /\ Len(info.parameters) > 0 /\ Len(withDocs) > 0
          THEN << "\n\n**Parameters:**\n" >> \o paramLines(withDocs, 1) ELSE << >>)
      \o (IF info.returnDoc /= "" THEN << "\n\n**Returns:** ", info.returnDoc >> ELSE << >>)

onHoverResultUnchecked(symbolInfo) ==
  IF symbolInfo.null THEN NullReply
  ELSE [NullReply EXCEPT !.kind = "hover", !.text = markdown(symbolInfo.result)]

\* The continuation of onHover: reading a field of null throws inside the
\* try, and the catch answers null.
onHoverResult(symbolInfo) ==
  IF symbolInfo.null THEN NullReply
  ELSE IF symbolInfo.success /\ symbolInfo.result.present
  THEN [NullReply EXCEPT !.kind = "hover", !.text = markdown(symbolInfo.result)]
  ELSE NullReply

onDefinitionZeroBased(path, docs, u, line, character) ==
  IF path = NoPath THEN Answer(NullReply)
  ELSE IF ~docs[u].open THEN Answer(NullReply)
  ELSE Query(path, filePath(u), line, character, 0)
onDefinition(path, docs, u, line, character) ==
  IF path = NoPath THEN Answer(NullReply)
  ELSE IF ~docs[u].open THEN Answer(NullReply)
  ELSE Query(path, filePath(u), line + 1, character, 0)

\* The Location { uri, range: { start: position, end: position } }.
Location(u, line, character) ==
  [NullReply EXCEPT !.kind = "location", !.uri = u,
                    !.line = line, !.character = character,
                    !.endLine = line, !.endCharacter = character]

\* The continuation of onDefinition: reading a field of null throws inside
\* the try, and the catch answers null.
onDefinitionResultUnchecked(symbolInfo, u, line, character) ==
  Location(u, line, character)
onDefinitionResult(symbolInfo, u, line, character) ==
  IF symbolInfo.null THEN NullReply
  ELSE IF symbolInfo.success /\ symbolInfo.result.present
  THEN Location(u, line, character)
  ELSE NullReply

\* The textual part of onSignatureHelp: the call the cursor is in and the
\* definition of the function called.  lines[line] is undefined for a line
\* past the end of the text, and undefined.substring throws outside the try.
scanCall(text, line, character) ==
  LET lines == split(getText(text))
  IN  IF line + 1 > Len(lines) THEN [found |-> "threw", def |-> NoDefinition, commas |-> 0]
      ELSE LET textBeforeCursor == substring(lines[line + 1], 0, character)
               openParenIndex == lastIndexOf(textBeforeCursor, "(")
               beforeParen == trim(substring(textBeforeCursor, 0, openParenIndex))
               functionName == matchTrailingWord(beforeParen)
               def == findDefinition(lines, functionName)
               textInCall == substring(textBeforeCursor, openParenIndex + 1,
                                       Len(textBeforeCursor))
           IN  IF openParenIndex = -1 \/ functionName = << >> \/ def = NoDefinition
               THEN [found |-> "no", def |-> NoDefinition, commas |-> 0]
               ELSE [found |-> "yes", def |-> def, commas |-> commaCount(textInCall)]

\* scanCall for every text and cursor, as a table.
Scanned ==
  [x \in Texts \X (0..MaxLine) \X (0..MaxCol) |-> scanCall(x[1], x[2], x[3])] @@ << >>

onSignatureHelpEager(path, docs, u, line, character) ==
  IF path = NoPath THEN Answer(NullReply)
  ELSE IF ~docs[u].open THEN Answer(NullReply)
  ELSE LET call == Scanned[<< docs[u].text, line, character >>]
       IN  IF call.found = "threw" THEN Answer(Rejected)
           ELSE Query(path, filePath(u), call.def.line, call.def.column, call.commas)
onSignatureHelp(path, docs, u, line, character) ==
  IF path = NoPath THEN Answer(NullReply)
  ELSE IF ~docs[u].open THEN Answer(NullReply)
  ELSE LET call == Scanned[<< docs[u].text, line, character >>]
       IN  IF call.found = "threw" THEN Answer(Rejected)
           ELSE IF call.found = "no" THEN Answer(NullReply)
           ELSE Query(path, filePath(u), call.def.line, call.def.column, call.commas)

RECURSIVE joinNames(_, _)
joinNames(ps, k) ==       \* parameters.map(p => p.name).join(', ')
  IF k > Len(ps) THEN << >>
  ELSE IF k = Len(ps) THEN << ps[k].name >>
  ELSE << ps[k].name, ",", " " >> \o joinNames(ps, k + 1)

Undefined == "<undefined>"
orUndefined(x) == IF x = "" THEN Undefined ELSE x     \* x || undefined

\* An element of parameters: ParameterInformation
parameterInformationSwapped(param) ==
  [label |-> orUndefined(param.documentation), documentation |-> param.name]
parameterInformation(param) ==
  [label |-> param.name, documentation |-> orUndefined(param.documentation)]

\* Math.min(commaCount, parameters.length - 1)
activeParameterUnclamped(count, n) == count
activeParameter(count, n) == Min(count, n - 1)

\* The continuation of onSignatureHelp.  The names of the model are single
\* characters, so the label is a sequence of characters.
onSignatureHelpResult(symbolInfo, commas) ==
  IF symbolInfo.null THEN NullReply
  ELSE IF ~symbolInfo.success \/ ~symbolInfo.result.present
          \/ ~symbolInfo.result.hasParameters THEN NullReply
  ELSE LET result == symbolInfo.result
           parameters == [k \in 1..Len(result.parameters) |->
                            parameterInformation(result.parameters[k])]
           signatureLabel ==
             << result.name, "(" >> \o joinNames(result.parameters, 1) \o << ")" >>
           signature == [label |-> signatureLabel,
                         documentation |-> orUndefined(result.documentation),
                         parameters |-> parameters]
           active == activeParameter(commas, Len(parameters))
       IN  [NullReply EXCEPT
              !.kind = "signature",
              !.signatures = << signature >>,
              !.activeSignature = 0,
              !.activeParameter = IF active >= 0 THEN active ELSE 0]

NoRequest ==
  [stage |-> "none", method |-> "", uri |-> "", line |-> 0, character |-> 0,
   args |-> NoArgs, commas |-> 0, promise |-> Pending, late |-> FALSE,
   reply |-> NullReply]

VARIABLES
  phase,                      \* "created" until onInitialized has run
  hasConfigurationCapability,
  env,                        \* the file system as findVoltaCompiler sees it
  globalSettings,             \* globalSettings.compilerPath
  voltaCompilerPath,
  documents,                  \* the TextDocuments manager: uri -> [open, text]
  documentSettings,           \* uri -> promise id, 0 when not cached
  promises,                   \* promise id -> "free" | "pending" | "resolved" | "rejected"
  validatedDocuments,
  validationTimers,           \* uri -> timer id, 0 when absent
  timers,                     \* timers pending in the event loop
  validations,                \* validateTextDocument calls in progress
  files,                      \* scratch files present in the temp directory
  published,                  \* uri -> diagnostics the client displays
  \* history of the run, read by the properties only
  sinceChange,                \* ms since the last content change of uri (saturating)
  debounced,                  \* timer-fired validations in the current burst of uri
  everStarted,                \* URIs validateTextDocument was ever called for
  everResolved,               \* voltaCompilerPath was resolved at some time
  shownCurrent,               \* published[uri] is the result for the current text
  request,                    \* the hover, definition or signature-help request in hand
  notified,                   \* "compiler not found" messages shown to the user
  parser                      \* a call of parseCompilerErrors: its stderr and its result

lifeVars ==
  << phase, hasConfigurationCapability, env, globalSettings, voltaCompilerPath,
     documents, documentSettings, promises, validatedDocuments, validationTimers,
     timers, validations, files, published >>
histVars ==
  << sinceChange, debounced, everStarted, everResolved, shownCurrent >>
vars == << lifeVars, histVars, request, notified, parser >>

Slots == 1..MaxInflight
\* A validateTextDocument call: stage "settings" awaits a pending settings
\* promise, "ready" has its continuation queued as a microtask, "write" awaits
\* fs.writeFile, "proc" awaits the compiler process.  stale is history: the
\* document changed after the call took its text.
\* result is the promise of compileFile: its value is the array `diagnostics`
\* that both handlers of the process push to and resolve with.  Stage "late"
\* is a pass that has ended on the 'error' event of a failed launch while the
\* 'close' event of the same process is still to come.
Idle ==
  [stage |-> "idle", uri |-> "", text |-> "", promise |-> 0, path |-> NoPath,
   file |-> 0, stale |-> FALSE, result |-> [settled |-> FALSE, value |-> << >>]]

FreeSlots(vals) == {i \in Slots : vals[i].stage = "idle"}
FirstFree(vals) == CHOOSE i \in FreeSlots(vals) : \A j \in FreeSlots(vals) : i <= j
Put(vals, v) == [vals EXCEPT ![FirstFree(vals)] = v]
OpenDocs == {u \in URIs : documents[u].open}
\* Microtasks run before the next event is handled.
NoMicrotask == \A i \in Slots : validations[i].stage /= "ready"

InitIn(envs) ==
  /\ phase = "created"
  /\ hasConfigurationCapability \in BOOLEAN
  /\ env \in envs
  /\ globalSettings = DefaultCompilerPath
  /\ voltaCompilerPath = NoPath
  /\ documents = [u \in URIs |-> [open |-> FALSE, text |-> ""]]
  /\ documentSettings = [u \in URIs |-> 0]
  /\ promises = [p \in 1..MaxPromises |-> "free"]
  /\ validatedDocuments = {}
  /\ validationTimers = [u \in URIs |-> 0]
  /\ timers = {}
  /\ validations = [i \in Slots |-> Idle]
  /\ files = {}
  /\ published = [u \in URIs |-> NotPublished]
  /\ sinceChange = [u \in URIs |-> QuietPeriod + 1]
  /\ debounced = [u \in URIs |-> 0]
  /\ everStarted = {}
  /\ everResolved = FALSE
  /\ shownCurrent = [u \in URIs |-> FALSE]
  /\ request = NoRequest
  /\ notified = 0

InitServer == InitIn(Envs)

Init == InitServer /\ parser = NoParse

\* The server before onInitialized, in any of the environments ResolveEnvs.
InitResolve == InitIn(ResolveEnvs) /\ parser = NoParse

\* The parser is started on one stderr text; the server around it is at rest.
InitParser ==
  /\ InitServer
  /\ hasConfigurationCapability
  /\ env = CHOOSE e \in Envs : TRUE
  /\ \E ls \in StderrInputs :
       parser = [NoParse EXCEPT !.input = ls, !.stderr = Join(ls)]

(***************************************************************************)
(* server.ts: getDocumentSettings and validateTextDocument.  A handler     *)
(* that starts validations threads the record                              *)
(*   st = [vals, ds, pr, started, p]                                       *)
(* (validations, documentSettings, promises, URIs validated by this        *)
(* handler, promise returned last) through them.                           *)
(***************************************************************************)
Referenced(ds, vals) == {ds[u] : u \in URIs} \cup {vals[i].promise : i \in Slots}
FreshPromise(ds, vals) ==
  CHOOSE q \in 1..MaxPromises :
    /\ q \notin Referenced(ds, vals)
    /\ \A q2 \in 1..MaxPromises : q2 \notin Referenced(ds, vals) => q <= q2
Collect(pr, ds, vals) ==
  [q \in 1..MaxPromises |-> IF q \in Referenced(ds, vals) THEN pr[q] ELSE "free"]

getDocumentSettings(st, resource) ==
  IF ~hasConfigurationCapability
  THEN [st EXCEPT !.p = 0]                    \* Promise.resolve(globalSettings)
  ELSE IF st.ds[resource] /= 0
  THEN [st EXCEPT !.p = st.ds[resource]]
  ELSE LET q == FreshPromise(st.ds, st.vals)
       IN  [st EXCEPT !.ds[resource] = q, !.pr[q] = "pending", !.p = q]

\* validateTextDocument up to its first await: the text is taken, the
\* settings are requested.
validateTextDocument(st, u, text) ==
  LET g == getDocumentSettings(st, u)
      v == [Idle EXCEPT !.stage = IF g.p /= 0 /\ g.pr[g.p] = "pending"
                                  THEN "settings" ELSE "ready",
                        !.uri = u, !.text = text, !.promise = g.p]
  IN  [g EXCEPT !.vals = Put(@, v), !.started = @ \cup {u}]

\* validateTextDocument after `await getDocumentSettings`: a rejected promise
\* throws out of the function; otherwise the compiler-path check decides
\* whether the pass goes on to runVoltaCompiler (createTempFile).
AfterSettingsUnchecked(v, outcome, path) ==
  IF outcome = "rejected" THEN Idle
  ELSE [v EXCEPT !.stage = "write", !.path = path, !.promise = 0]

\* A pass that would read the document again after the await.
AfterSettingsRereading(v, outcome, path) ==
  IF outcome = "rejected" THEN Idle
  ELSE IF path = NoPath THEN Idle
  ELSE [v EXCEPT !.stage = "write", !.path = path, !.promise = 0,
                 !.text = documents[v.uri].text]

AfterSettings(v, outcome, path) ==
  IF outcome = "rejected" THEN Idle
  ELSE IF path = NoPath THEN Idle
  ELSE [v EXCEPT !.stage = "write", !.path = path, !.promise = 0]

\* How the promise that validateTextDocument returned stands after each step
\* of the pass.  The await of getDocumentSettings is outside the try, so its
\* rejection rejects the promise, which no caller awaits or catches; the
\* rejection of createTempFile is thrown inside the try and caught; compileFile
\* never rejects.
settledAfterSettings(outcome, path) ==
  IF outcome = "rejected" THEN "rejected"
  ELSE IF path = NoPath THEN "fulfilled" ELSE "pending"
settledAfterWrite(ok) == IF ok THEN "pending" ELSE "fulfilled"
settledAfterProcess(event) == "fulfilled"

RECURSIVE validateAll(_, _, _)
validateAll(st, docs, i) ==      \* documents.all().forEach(validateTextDocument)
  IF i > Len(URISeq) THEN st
  ELSE LET u == URISeq[i]
       IN  validateAll(IF docs[u].open THEN validateTextDocument(st, u, docs[u].text)
                       ELSE st,
                       docs, i + 1)

St(vals) ==
  [vals |-> vals, ds |-> documentSettings, pr |-> promises, started |-> {}, p |-> 0]

\* The variables a handler's validations leave behind.
Commit(st) ==
  /\ validations' = st.vals
  /\ documentSettings' = st.ds
  /\ promises' = Collect(st.pr, st.ds, st.vals)
  /\ everStarted' = everStarted \cup st.started

(***************************************************************************)
(* server.ts: the document handlers.                                       *)
(***************************************************************************)
clearTimeoutNoop(tms, id) == tms

clearTimeout(tms, id) == {x \in tms : x.id /= id}

UsedTimerIds(tms, vt, u) == {x.id : x \in tms} \cup {vt[w] : w \in URIs \ {u}}
ClearedNever(tms, vt, u) == tms
Cleared(tms, vt, u) == IF vt[u] /= 0 THEN clearTimeout(tms, vt[u]) ELSE tms
TimerIdFree(tms, vt, u) ==
  \E id \in 1..MaxTimers : id \notin UsedTimerIds(Cleared(tms, vt, u), vt, u)

\* A handler that would only cancel when a timer is pending.
onDidChangeContentToggling(T, u, t) ==
  LET cleared == Cleared(T.tms, T.vt, u)
      used == UsedTimerIds(cleared, T.vt, u)
      id == CHOOSE i \in 1..MaxTimers :
              i \notin used /\ \A j \in 1..MaxTimers : j \notin used => i <= j
  IN  IF T.vt[u] /= 0
      THEN [vt |-> [T.vt EXCEPT ![u] = 0], tms |-> cleared]
      ELSE [vt |-> [T.vt EXCEPT ![u] = id],
            tms |-> cleared \cup
                    {[id |-> id, uri |-> u, left |-> QuietPeriod, snapshot |-> t]}]
onDidChangeContentUnrecorded(T, u, t) ==
  LET cleared == Cleared(T.tms, T.vt, u)
      used == UsedTimerIds(cleared, T.vt, u)
      id == CHOOSE i \in 1..MaxTimers :
              i \notin used /\ \A j \in 1..MaxTimers : j \notin used => i <= j
  IN  [vt |-> T.vt,
       tms |-> cleared \cup
               {[id |-> id, uri |-> u, left |-> QuietPeriod, snapshot |-> t]}]
onDidChangeContent(T, u, t) ==
  LET cleared == Cleared(T.tms, T.vt, u)
      used == UsedTimerIds(cleared, T.vt, u)
      id == CHOOSE i \in 1..MaxTimers :
              i \notin used /\ \A j \in 1..MaxTimers : j \notin used => i <= j
  IN  [vt |-> [T.vt EXCEPT ![u] = id],
       tms |-> cleared \cup
               {[id |-> id, uri |-> u, left |-> QuietPeriod, snapshot |-> t]}]

onDidOpenDeferred(st, vd, u, t) ==
  IF u \notin vd THEN [vd |-> vd \cup {u}, st |-> st] ELSE [vd |-> vd, st |-> st]

onDidOpen(st, vd, u, t) ==
  IF u \notin vd
  THEN [vd |-> vd \cup {u}, st |-> validateTextDocument(st, u, t)]
  ELSE [vd |-> vd, st |-> st]

onDidCloseKeepingSettings(D, u) ==
  [ds |-> D.ds,
   tms |-> IF D.vt[u] /= 0 THEN clearTimeout(D.tms, D.vt[u]) ELSE D.tms,
   vt |-> [D.vt EXCEPT ![u] = 0],
   vd |-> D.vd]
onDidClose(D, u) ==
  [ds |-> [D.ds EXCEPT ![u] = 0],
   tms |-> IF D.vt[u] /= 0 THEN clearTimeout(D.tms, D.vt[u]) ELSE D.tms,
   vt |-> [D.vt EXCEPT ![u] = 0],
   vd |-> D.vd]

\* A content-change event for u, as the history sees it.
MarkStaleAborting(vals, u) ==
  [i \in Slots |-> IF vals[i].uri = u THEN Idle ELSE vals[i]]
MarkStale(vals, u) ==
  [i \in Slots |-> IF vals[i].uri = u THEN [vals[i] EXCEPT !.stale = TRUE] ELSE vals[i]]
ChangeSeen(u) ==
  /\ sinceChange' = [sinceChange EXCEPT ![u] = 0]
  /\ debounced' = [debounced EXCEPT ![u] =
                     IF documents[u].open /\ sinceChange[u] < QuietPeriod THEN @ ELSE 0]
  /\ shownCurrent' = [shownCurrent EXCEPT ![u] = FALSE]

showErrorMessageOnce(n, path) == IF path = NoPath /\ n = 0 THEN 1 ELSE n

\* if (!voltaCompilerPath) connection.window.showErrorMessage(...); the
\* messages are counted up to MaxNotified.
showErrorMessage(n, path) == IF path = NoPath THEN Min(n + 1, MaxNotified) ELSE n

Initialized ==
  /\ phase = "created"
  /\ phase' = "running"
  /\ voltaCompilerPath' = findVoltaCompiler(env, globalSettings)
  /\ notified' = showErrorMessage(notified, voltaCompilerPath')
  /\ everResolved' = (voltaCompilerPath' /= NoPath)
  /\ UNCHANGED << hasConfigurationCapability, env, globalSettings, documents,
                  documentSettings, promises, validatedDocuments, validationTimers,
                  timers, validations, files, published >>
  /\ UNCHANGED << sinceChange, debounced, everStarted, shownCurrent >>
  /\ UNCHANGED << request, parser >>

\* TextDocuments fires onDidOpen and then onDidChangeContent for an open
\* notification.
DidOpenTextDocument(u, t) ==
  /\ phase = "running" /\ NoMicrotask
  /\ ~documents[u].open
  /\ FreeSlots(validations) /= {}
  /\ TimerIdFree(timers, validationTimers, u)
  /\ documents' = [documents EXCEPT ![u] = [open |-> TRUE, text |-> t]]
  /\ LET o == onDidOpen(St(MarkStale(validations, u)), validatedDocuments, u, t)
         c == onDidChangeContent([vt |-> validationTimers, tms |-> timers], u, t)
     IN  /\ validatedDocuments' = o.vd
         /\ Commit(o.st)
         /\ validationTimers' = c.vt
         /\ timers' = c.tms
  /\ ChangeSeen(u)
  /\ UNCHANGED << phase, hasConfigurationCapability, env, globalSettings,
                  voltaCompilerPath, files, published >>
  /\ UNCHANGED everResolved
  /\ UNCHANGED << request, notified, parser >>

DidChangeTextDocument(u, t) ==
  /\ phase = "running" /\ NoMicrotask
  /\ documents[u].open
  /\ TimerIdFree(timers, validationTimers, u)
  /\ documents' = [documents EXCEPT ![u].text = t]
  /\ LET c == onDidChangeContent([vt |-> validationTimers, tms |-> timers], u, t)
     IN  /\ validationTimers' = c.vt
         /\ timers' = c.tms
  /\ validations' = MarkStale(validations, u)
  /\ ChangeSeen(u)
  /\ UNCHANGED << phase, hasConfigurationCapability, env, globalSettings,
                  voltaCompilerPath, documentSettings, promises, validatedDocuments,
                  files, published >>
  /\ UNCHANGED << everStarted, everResolved >>
  /\ UNCHANGED << request, notified, parser >>

DidCloseTextDocument(u) ==
  /\ phase = "running" /\ NoMicrotask
  /\ documents[u].open
  /\ documents' = [documents EXCEPT ![u] = [open |-> FALSE, text |-> ""]]
  /\ LET c == onDidClose([ds |-> documentSettings, vt |-> validationTimers,
                          tms |-> timers, vd |-> validatedDocuments], u)
     IN  /\ documentSettings' = c.ds
         /\ promises' = Collect(promises, c.ds, validations)
         /\ validationTimers' = c.vt
         /\ timers' = c.tms
         /\ validatedDocuments' = c.vd
  /\ debounced' = [debounced EXCEPT ![u] = 0]
  /\ UNCHANGED << phase, hasConfigurationCapability, env, globalSettings,
                  voltaCompilerPath, validations, files, published >>
  /\ UNCHANGED << sinceChange, everStarted, everResolved, shownCurrent >>
  /\ UNCHANGED << request, notified, parser >>

SettingsInputs == {"missing"} \cup ConfiguredPaths   \* change.settings.volta

shouldRevalidateAlways(oldPath, newPath) == TRUE

\* "Only revalidate if compiler path actually changed"
shouldRevalidate(oldPath, newPath) == oldPath /= newPath

DidChangeConfiguration(s) ==
  /\ phase = "running" /\ NoMicrotask
  /\ LET ds1 == IF hasConfigurationCapability THEN [u \in URIs |-> 0]
                ELSE documentSettings
         gs1 == IF hasConfigurationCapability THEN globalSettings
                ELSE IF s = "missing" THEN DefaultCompilerPath ELSE s
         oldPath == voltaCompilerPath
         newPath == findVoltaCompiler(env, gs1)
         st1 == [St(validations) EXCEPT !.ds = ds1]
         again == shouldRevalidate(oldPath, newPath)
         st2 == IF again THEN validateAll(st1, documents, 1) ELSE st1
     IN  /\ again => Cardinality(OpenDocs) <= Cardinality(FreeSlots(validations))
         /\ globalSettings' = gs1
         /\ voltaCompilerPath' = newPath
         /\ notified' = showErrorMessage(notified, newPath)
         /\ everResolved' = (everResolved \/ newPath /= NoPath)
         /\ Commit(st2)
  /\ UNCHANGED << phase, hasConfigurationCapability, env, documents,
                  validatedDocuments, validationTimers, timers, files, published >>
  /\ UNCHANGED << sinceChange, debounced, shownCurrent >>
  /\ UNCHANGED << request, parser >>

(***************************************************************************)
(* The clock.  A timer fires when its delay has run out, and time does not *)
(* pass while a timer is due.                                              *)
(***************************************************************************)
Tick ==
  /\ phase = "running" /\ NoMicrotask
  /\ \A x \in timers : x.left > 0
  /\ timers /= {} \/ \E u \in URIs : sinceChange[u] <= QuietPeriod
  /\ LET lefts == {x.left : x \in timers} \cup {TickMs}
         d == CHOOSE m \in lefts : \A n \in lefts : m <= n
     IN  /\ timers' = {[x EXCEPT !.left = @ - d] : x \in timers}
         /\ sinceChange' = [u \in URIs |-> Min(sinceChange[u] + d, QuietPeriod + 1)]
  /\ UNCHANGED << phase, hasConfigurationCapability, env, globalSettings,
                  voltaCompilerPath, documents, documentSettings, promises,
                  validatedDocuments, validationTimers, validations, files, published >>
  /\ UNCHANGED << debounced, everStarted, everResolved, shownCurrent >>
  /\ UNCHANGED << request, notified, parser >>

\* The document text the timer's callback validates: change.document is the
\* live document of the manager.
TimerText(x, docs) == docs[x.uri].text

TimerFire(x) ==
  /\ NoMicrotask
  /\ x \in timers
  /\ x.left = 0
  /\ FreeSlots(validations) /= {}
  /\ LET text == TimerText(x, documents)
     IN  /\ Commit(validateTextDocument(St(validations), x.uri, text))
         /\ debounced' = [debounced EXCEPT ![x.uri] =
                            IF text = documents[x.uri].text THEN Min(@ + 1, 2) ELSE 2]
  /\ validationTimers' = [validationTimers EXCEPT ![x.uri] = 0]
  /\ timers' = timers \ {x}
  /\ UNCHANGED << phase, hasConfigurationCapability, env, globalSettings,
                  voltaCompilerPath, documents, validatedDocuments, files, published >>
  /\ UNCHANGED << sinceChange, everResolved, shownCurrent >>
  /\ UNCHANGED << request, notified, parser >>

(***************************************************************************)
(* The asynchronous steps of a validation pass.                            *)
(***************************************************************************)
\* connection.workspace.getConfiguration settles; the continuation of every
\* pass awaiting it is queued.
SettingsSettle(q, outcome) ==
  /\ NoMicrotask
  /\ promises[q] = "pending"
  /\ validations' = [i \in Slots |->
                       IF validations[i].stage = "settings" /\ validations[i].promise = q
                       THEN [validations[i] EXCEPT !.stage = "ready"]
                       ELSE validations[i]]
  /\ promises' = [promises EXCEPT ![q] = outcome]
  /\ UNCHANGED << phase, hasConfigurationCapability, env, globalSettings,
                  voltaCompilerPath, documents, documentSettings, validatedDocuments,
                  validationTimers, timers, files, published >>
  /\ UNCHANGED histVars
  /\ UNCHANGED << request, notified, parser >>

\* The continuation of validateTextDocument after its first await.
Resume(i) ==
  /\ validations[i].stage = "ready"
  /\ LET v == validations[i]
         outcome == IF v.promise = 0 THEN "resolved" ELSE promises[v.promise]
         vals1 == [validations EXCEPT ![i] = AfterSettings(v, outcome, voltaCompilerPath)]
     IN  /\ validations' = vals1
         /\ promises' = Collect(promises, documentSettings, vals1)
  /\ UNCHANGED << phase, hasConfigurationCapability, env, globalSettings,
                  voltaCompilerPath, documents, documentSettings, validatedDocuments,
                  validationTimers, timers, files, published >>
  /\ UNCHANGED histVars
  /\ UNCHANGED << request, notified, parser >>

unlinkSyncNoop(fs, f) == fs

unlinkSync(fs, f) == fs \ {f}

\* createTempFile: fs.writeFile calls back.  On success compileFile spawns the
\* compiler on the file; on failure the rejection reaches the catch of
\* validateTextDocument.
WriteDone(i, name, ok) ==
  /\ NoMicrotask
  /\ validations[i].stage = "write"
  /\ IF ok
     THEN /\ files' = files \cup {name}
          /\ validations' = [validations EXCEPT ![i].stage = "proc", ![i].file = name]
     ELSE /\ files' = files
          /\ validations' = [validations EXCEPT ![i] = Idle]
  /\ UNCHANGED << phase, hasConfigurationCapability, env, globalSettings,
                  voltaCompilerPath, documents, documentSettings, promises,
                  validatedDocuments, validationTimers, timers, published >>
  /\ UNCHANGED histVars
  /\ UNCHANGED << request, notified, parser >>

\* compileFile: what the promise resolves with, on the 'error' event of a
\* failed launch or on the 'close' event of the process.
compileFileSilent(v, event) ==
  IF event = "error" THEN << >> ELSE CheckDiagnostics(v.text)

compileFile(v, event) ==
  IF event = "error" THEN << LaunchFailure >> ELSE CheckDiagnostics(v.text)

sendDiagnosticsMerging(pub, u, diagnostics) ==
  [pub EXCEPT ![u] = Shown(@.diagnostics \o diagnostics)]

sendDiagnostics(pub, u, diagnostics) == [pub EXCEPT ![u] = Shown(diagnostics)]

\* The first event of the spawned process ('error' when the launch fails,
\* 'close' when the process has run): compileFile resolves, runVoltaCompiler's
\* finally removes the scratch file, validateTextDocument publishes.
ProcEvent(i, event) ==
  /\ NoMicrotask
  /\ validations[i].stage = "proc"
  /\ LET v == validations[i]
     IN  /\ files' = unlinkSync(files, v.file)
         /\ published' = sendDiagnostics(published, v.uri, compileFile(v, event))
         /\ validations' = [validations EXCEPT ![i] = Idle]
         /\ shownCurrent' = [shownCurrent EXCEPT ![v.uri] = ~v.stale]
  /\ UNCHANGED << phase, hasConfigurationCapability, env, globalSettings,
                  voltaCompilerPath, documents, documentSettings, promises,
                  validatedDocuments, validationTimers, timers >>
  /\ UNCHANGED << sinceChange, debounced, everStarted, everResolved >>
  /\ UNCHANGED << request, notified, parser >>

\* compileFile, event by event.  Both handlers push to the one array and
\* call resolve with it; a failed launch has written nothing to stderr.
compileFileOnError(promise) ==
  LET pushed == [promise EXCEPT !.value = @ \o << LaunchFailure >>]
  IN  resolve(pushed, pushed.value)

compileFileOnCloseReporting(promise, stderr) ==
  LET pushed == [promise EXCEPT
                  !.value = @ \o << LaunchFailure >> \o parseCompilerErrors(stderr)]
  IN  resolve(pushed, pushed.value)

compileFileOnClose(promise, stderr) ==
  LET pushed == [promise EXCEPT !.value = @ \o parseCompilerErrors(stderr)]
  IN  resolve(pushed, pushed.value)

\* The 'error' event of a launch that failed: compileFile resolves,
\* runVoltaCompiler's finally removes the scratch file, validateTextDocument
\* publishes what the promise resolved with.
LaunchError(i) ==
  /\ NoMicrotask
  /\ validations[i].stage = "proc"
  /\ LET v == validations[i]
         promise == compileFileOnError(v.result)
     IN  /\ files' = unlinkSync(files, v.file)
         /\ published' = sendDiagnostics(published, v.uri, promise.value)
         /\ validations' = [validations EXCEPT ![i].stage = "late",
                                               ![i].result = promise]
         /\ shownCurrent' = [shownCurrent EXCEPT ![v.uri] = ~v.stale]
  /\ UNCHANGED << phase, hasConfigurationCapability, env, globalSettings,
                  voltaCompilerPath, documents, documentSettings, promises,
                  validatedDocuments, validationTimers, timers >>
  /\ UNCHANGED << sinceChange, debounced, everStarted, everResolved >>
  /\ UNCHANGED << request, notified, parser >>

\* The 'close' event that follows it: the handler runs on the settled
\* promise, and the process is gone.
LateClose(i) ==
  /\ NoMicrotask
  /\ validations[i].stage = "late"
  /\ validations' =
       [validations EXCEPT
          ![i] = [Idle EXCEPT !.result = compileFileOnClose(validations[i].result, << >>)]]
  /\ UNCHANGED << phase, hasConfigurationCapability, env, globalSettings,
                  voltaCompilerPath, documents, documentSettings, promises,
                  validatedDocuments, validationTimers, timers, files, published >>
  /\ UNCHANGED histVars
  /\ UNCHANGED << request, notified, parser >>

(***************************************************************************)
(* Hover, definition and signature-help requests.  One request is in hand  *)
(* at a time.                                                              *)
(***************************************************************************)
Methods == {"hover", "definition", "signatureHelp"}

Handle(method, u, line, character) ==
  IF method = "hover" THEN onHover(voltaCompilerPath, documents, u, line, character)
  ELSE IF method = "definition"
  THEN onDefinition(voltaCompilerPath, documents, u, line, character)
  ELSE onSignatureHelp(voltaCompilerPath, documents, u, line, character)

Continue(r, symbolInfo) ==
  IF r.method = "hover" THEN onHoverResult(symbolInfo)
  ELSE IF r.method = "definition"
  THEN onDefinitionResult(symbolInfo, r.uri, r.line, r.character)
  ELSE onSignatureHelpResult(symbolInfo, r.commas)

\* A request arrives: the synchronous part of its handler runs, and
\* getSymbolInfoFromCompiler spawns the compiler unless the handler has
\* answered already.
Request(method, u, line, character) ==
  /\ phase = "running" /\ NoMicrotask
  /\ request.stage = "none"
  /\ LET h == Handle(method, u, line, character)
     IN  request' = [NoRequest EXCEPT
                       !.stage = IF h.spawn THEN "spawned" ELSE "done",
                       !.method = method, !.uri = u,
                       !.line = line, !.character = character,
                       !.args = h.args, !.commas = h.commas, !.reply = h.reply]
  /\ UNCHANGED << lifeVars, histVars, notified, parser >>

\* The first event of the query's process: the promise settles and the
\* handler's continuation, a microtask, runs before any other event.
QueryEvent(event, stdout) ==
  /\ NoMicrotask
  /\ request.stage = "spawned"
  /\ LET promise == IF event = "error" THEN onError(request.promise)
                    ELSE onClose(request.promise, stdout)
     IN  request' = [request EXCEPT
                       !.stage = "done", !.promise = promise,
                       !.late = (event = "error"),
                       !.reply = Continue(request, promise.value)]
  /\ UNCHANGED << lifeVars, histVars, notified, parser >>

\* The answer has gone to the client and the query's process has ended.
Respond ==
  /\ NoMicrotask
  /\ request.stage = "done" /\ ~request.late
  /\ request' = NoRequest
  /\ UNCHANGED << lifeVars, histVars, notified, parser >>

\* The 'close' event that follows the 'error' event of a failed launch.
QueryLateClose ==
  /\ NoMicrotask
  /\ request.stage = "done" /\ request.late
  /\ request' = [request EXCEPT !.promise = onClose(@, ""), !.late = FALSE]
  /\ UNCHANGED << lifeVars, histVars, notified, parser >>

\* The handlers and steps of the validation pipeline, for the documents U and
\* the texts T.
Steps(U, T) ==
  \/ Initialized
  \/ \E u \in U, t \in T : DidOpenTextDocument(u, t)
  \/ \E u \in U, t \in T : DidChangeTextDocument(u, t)
  \/ \E u \in U : DidCloseTextDocument(u)
  \/ \E s \in SettingsInputs : DidChangeConfiguration(s)
  \/ \E q \in 1..MaxPromises, outcome \in {"resolved", "rejected"} : SettingsSettle(q, outcome)
  \/ \E i \in Slots : Resume(i)
  \/ \E i \in Slots, name \in TempNames, ok \in BOOLEAN : WriteDone(i, name, ok)
  \/ \E i \in Slots, event \in {"close", "error"} : ProcEvent(i, event)

\* One document, every text, with the clock.
Next ==
  \/ Steps({URISeq[1]}, Texts)
  \/ Tick
  \/ \E x \in timers : TimerFire(x)
Spec == Init /\ [][Next]_vars

\* Every document, one text; the runs in which no debounce timer comes due.
NextDocs == Steps(URIs, {"A"})
SpecDocs == Init /\ [][NextDocs]_vars

\* One document and the requests about it; the validations run without
\* faults.
NextQuery ==
  \/ Initialized
  \/ \E t \in Texts : DidOpenTextDocument(URISeq[1], t)
  \/ DidCloseTextDocument(URISeq[1])
  \/ \E q \in 1..MaxPromises : SettingsSettle(q, "resolved")
  \/ \E i \in Slots : Resume(i)
  \/ \E i \in Slots : WriteDone(i, 1, TRUE)
  \/ \E i \in Slots : ProcEvent(i, "close")
  \/ \E method \in Methods, line \in 0..MaxLine, character \in 0..MaxCol :
       Request(method, URISeq[1], line, character)
  \/ \E stdout \in Stdouts : QueryEvent("close", stdout)
  \/ QueryEvent("error", "")
  \/ QueryLateClose
  \/ Respond
SpecQuery == Init /\ [][NextQuery]_vars

\* One document of text A with its validations and one request about it, at
\* the cursor after 'f(1,', under every open, change, close and configuration
\* event; the validations run without faults and no timer comes due.
NextCancel ==
  \/ Initialized
  \/ DidOpenTextDocument(URISeq[1], "A")
  \/ DidChangeTextDocument(URISeq[1], "A")
  \/ DidCloseTextDocument(URISeq[1])
  \/ \E s \in SettingsInputs : DidChangeConfiguration(s)
  \/ \E q \in 1..MaxPromises : SettingsSettle(q, "resolved")
  \/ \E i \in Slots : Resume(i)
  \/ \E i \in Slots : WriteDone(i, 1, TRUE)
  \/ \E i \in Slots : ProcEvent(i, "close")
  \/ \E method \in Methods : Request(method, URISeq[1], 1, 4)
  \/ QueryEvent("close", "function")
  \/ QueryEvent("error", "")
  \/ QueryLateClose
  \/ Respond
SpecCancel == Init /\ [][NextCancel]_vars

\* The same with the clock.  The event loop runs what is its own to run:
\* timers that are due, continuations, the callbacks of the file system and
\* of the settings request, the answers.  Nothing obliges the compiler
\* process to end, nor the client to send events.
NextWait ==
  \/ NextCancel
  \/ Tick
  \/ \E x \in timers : TimerFire(x)
EventLoopFairness ==
  /\ WF_vars(Tick)
  /\ WF_vars(\E x \in timers : TimerFire(x))
  /\ WF_vars(\E q \in 1..MaxPromises : SettingsSettle(q, "resolved"))
  /\ WF_vars(\E i \in Slots : Resume(i))
  /\ WF_vars(\E i \in Slots : WriteDone(i, 1, TRUE))
  /\ WF_vars(QueryLateClose)
  /\ WF_vars(Respond)
SpecWait == Init /\ [][NextWait]_vars /\ EventLoopFairness

\* One document and every text with the clock, when the passes run without
\* faults and every compiler process ends.  Time passes
\* whatever the client sends, and a due timer is run by the event loop
\* however many passes are in progress, so the fairness of the clock and of
\* the timers is strong: it does not depend on a moment without microtasks
\* or on a pass slot staying free.
DebounceFairness ==
  /\ EventLoopFairness
  /\ SF_vars(Tick)
  /\ SF_vars(\E x \in timers : TimerFire(x))
  /\ WF_vars(\E i \in Slots : ProcEvent(i, "close"))
NextDebounce ==
  \/ Initialized
  \/ \E t \in Texts : DidOpenTextDocument(URISeq[1], t)
  \/ \E t \in Texts : DidChangeTextDocument(URISeq[1], t)
  \/ DidCloseTextDocument(URISeq[1])
  \/ \E s \in SettingsInputs : DidChangeConfiguration(s)
  \/ \E q \in 1..MaxPromises : SettingsSettle(q, "resolved")
  \/ \E i \in Slots : Resume(i)
  \/ \E i \in Slots : WriteDone(i, 1, TRUE)
  \/ \E i \in Slots : ProcEvent(i, "close")
  \/ Tick
  \/ \E x \in timers : TimerFire(x)
SpecDebounce == Init /\ [][NextDebounce]_vars /\ DebounceFairness

\* One document with its validations and one request about it, when the
\* launch of the compiler may fail: the 'error' event of the process and the
\* 'close' event after it are two events.
NextLaunch ==
  \/ Initialized
  \/ \E t \in Texts : DidOpenTextDocument(URISeq[1], t)
  \/ \E t \in Texts : DidChangeTextDocument(URISeq[1], t)
  \/ DidCloseTextDocument(URISeq[1])
  \/ \E q \in 1..MaxPromises : SettingsSettle(q, "resolved")
  \/ \E i \in Slots : Resume(i)
  \/ \E i \in Slots : WriteDone(i, 1, TRUE)
  \/ \E i \in Slots : ProcEvent(i, "close")
  \/ \E i \in Slots : LaunchError(i)
  \/ \E i \in Slots : LateClose(i)
  \/ \E method \in Methods : Request(method, URISeq[1], 1, 4)
  \/ \E stdout \in Stdouts : QueryEvent("close", stdout)
  \/ QueryEvent("error", "")
  \/ QueryLateClose
  \/ Respond
SpecLaunch == Init /\ [][NextLaunch]_vars

\* Documents that are opened and then left alone: no edit, no close, no
\* configuration change; the clock runs and the passes may fail.
NextOpen ==
  \/ Initialized
  \/ \E u \in URIs, t \in Texts : DidOpenTextDocument(u, t)
  \/ \E q \in 1..MaxPromises, outcome \in {"resolved", "rejected"} : SettingsSettle(q, outcome)
  \/ \E i \in Slots : Resume(i)
  \/ \E i \in Slots, name \in TempNames, ok \in BOOLEAN : WriteDone(i, name, ok)
  \/ \E i \in Slots, event \in {"close", "error"} : ProcEvent(i, event)
  \/ Tick
  \/ \E x \in timers : TimerFire(x)
SpecOpen == Init /\ [][NextOpen]_vars

(***************************************************************************)
(* voltaCompiler.ts: the 'close' handler of compileFile hands the stderr   *)
(* it collected to parseCompilerErrors.                                    *)
(***************************************************************************)
ParseStderr ==
  /\ ~parser.ran
  /\ parser' = [parser EXCEPT !.ran = TRUE,
                              !.diagnostics = parseCompilerErrors(parser.stderr)]
  /\ UNCHANGED << lifeVars, histVars, request, notified >>

NextParser == ParseStderr

(***************************************************************************)
(* compilerPath.ts: the two callers of findVoltaCompiler, with no document *)
(* open.                                                                   *)
(***************************************************************************)
NextResolve ==
  \/ Initialized
  \/ \E s \in ResolveInputs : DidChangeConfiguration(s)
SpecResolve == InitResolve /\ [][NextResolve]_vars
SpecParser == InitParser /\ [][NextParser]_vars

(***************************************************************************)
(* Properties of the validation pipeline.                                  *)
(***************************************************************************)
Started(i, u, t) ==       \* this step called validateTextDocument for u with text t
  /\ validations[i].stage = "idle"
  /\ validations'[i].stage \in {"settings", "ready"}
  /\ validations'[i].uri = u
  /\ validations'[i].text = t

\* C1: a burst of content changes of an open document, each less than the
\* quiet period after the one before, gets no debounced validation while it
\* lasts and exactly one once the quiet period has passed, and that one
\* validates the text of the last event (debounced = 2 records a second
\* call, or a call with another text).
C1_Debounce ==
  \A u \in URIs :
    documents[u].open =>
      /\ sinceChange[u] < QuietPeriod => debounced[u] = 0
      /\ sinceChange[u] = QuietPeriod => debounced[u] \in {0, 1}
      /\ sinceChange[u] > QuietPeriod => debounced[u] = 1

C1_Witness ==
  \E u \in URIs :
    /\ documents[u].open /\ documents[u].text = "B"
    /\ sinceChange[u] > QuietPeriod /\ debounced[u] = 1
    /\ \E i \in Slots : validations[i].uri = u /\ validations[i].text = "A"
                        /\ validations[i].stale

\* C2: a validation started for an older revision of the text never
\* publishes over the result of a validation of the current revision.
C2_Staleness ==
  [][\A i \in Slots, event \in {"close", "error"} :
       ProcEvent(i, event) =>
         ~(validations[i].stale /\ shownCurrent[validations[i].uri])]_vars

\* C3: a pass whose compiler-path check finds no resolved path ends there,
\* spawning nothing and leaving the published diagnostics and the scratch
\* files as they were; no pass goes on to the scratch file or the process
\* without a path; and while the path has never been resolved nothing is
\* spawned or published.
C3_NoCompilerPath ==
  /\ [](/\ \A i \in Slots :
             validations[i].stage \in {"write", "proc"} => validations[i].path /= NoPath
        /\ ~everResolved =>
             /\ files = {}
             /\ \A u \in URIs : published[u] = NotPublished
             /\ \A i \in Slots : validations[i].stage \notin {"write", "proc"})
  /\ [][\A i \in Slots :
          (Resume(i) /\ voltaCompilerPath = NoPath) =>
            /\ validations'[i] = Idle
            /\ published' = published
            /\ files' = files]_vars

C3_Witness ==
  /\ ~everResolved
  /\ \E u \in URIs : /\ documents[u].open /\ u \in everStarted
                     /\ debounced[u] = 1 /\ sinceChange[u] > QuietPeriod
  /\ \A i \in Slots : validations[i].stage = "idle"

\* C4: the open notification of a document that was never validated starts a
\* validation of its text in the same step, before any time passes.
C4_OpenValidates ==
  [][\A u \in URIs, t \in Texts :
       (DidOpenTextDocument(u, t) /\ u \notin everStarted) =>
         \E i \in Slots : Started(i, u, t)]_vars

C4_Witness ==
  \E u \in URIs, i \in Slots :
    /\ documents[u].open /\ sinceChange[u] = 0
    /\ validations[i].uri = u /\ validations[i].stage \in {"settings", "ready"}
    /\ validations[i].text = documents[u].text /\ ~validations[i].stale

C6_CloseReleases ==
  \A u \in URIs :
    ~documents[u].open =>
      /\ validationTimers[u] = 0
      /\ \A x \in timers : x.uri /= u
      /\ documentSettings[u] = 0
      /\ u \notin validatedDocuments

ProcessEvents == {"close", "error"}

\* C9 as stated: the symbol query always settles with a value, with code
\* "ParseError" for output that is not JSON and "SpawnError" for a failed
\* launch.
C9_QueryCodesAsStated ==
  [][\A event \in ProcessEvents, stdout \in Stdouts :
       QueryEvent(event, stdout) =>
         LET v == request'.promise.value
         IN  /\ request'.promise.settled
             /\ event = "error" => ~v.null /\ ~v.success /\ v.code = "SpawnError"
             /\ (event = "close" /\ JSONparse(stdout).threw) =>
                  ~v.null /\ ~v.success /\ v.code = "ParseError"]_vars

\* C9 amended: the symbol query always settles with a value: a failure with
\* code "SPAWN_ERROR" for a failed launch, a failure with code "PARSE_ERROR"
\* for output that is not JSON, and whatever the output parses to otherwise.
C9_QueryNeverRaises ==
  [][\A event \in ProcessEvents, stdout \in Stdouts :
       QueryEvent(event, stdout) =>
         LET v == request'.promise.value
         IN  /\ request'.promise.settled
             /\ event = "error" => ~v.null /\ ~v.success /\ v.code = "SPAWN_ERROR"
             /\ (event = "close" /\ JSONparse(stdout).threw) =>
                  ~v.null /\ ~v.success /\ v.code = "PARSE_ERROR"
             /\ (event = "close" /\ ~JSONparse(stdout).threw) =>
                  v = JSONparse(stdout).value]_vars

C9_Witness ==
  /\ request.stage = "done" /\ request.promise.settled
  /\ ~request.promise.value.success
  /\ request.promise.value.code = "PARSE_ERROR"

\* C10: when the symbol query settles with a failure result, the handler
\* that asked answers null: no content, no location, no signature, no error.
C10_FailureGivesNull ==
  [][\A event \in ProcessEvents, stdout \in Stdouts :
       (/\ QueryEvent(event, stdout)
        /\ ~request'.promise.value.null
        /\ ~request'.promise.value.success) => request'.reply = NullReply]_vars

C10_Witness ==
  /\ request.stage = "done" /\ request.method = "signatureHelp"
  /\ request.promise.value.code = "SYMBOL_NOT_FOUND"
  /\ request.reply = NullReply

\* C11: no hover, definition or signature-help request ends in a thrown
\* exception or a rejected promise, wherever the cursor is.
C11_RequestsNeverReject ==
  request.reply.kind /= "rejected"

\* C12: no step of a validation pass leaves the promise of the pass
\* rejected: not a failed settings lookup, not a failed scratch-file write,
\* not a failed launch.
C12_PassEndsNormally ==
  [][/\ \A i \in Slots :
          Resume(i) =>
            LET v == validations[i]
                outcome == IF v.promise = 0 THEN "resolved" ELSE promises[v.promise]
            IN  settledAfterSettings(outcome, voltaCompilerPath) /= "rejected"
     /\ \A i \in Slots, name \in TempNames, ok \in BOOLEAN :
          WriteDone(i, name, ok) => settledAfterWrite(ok) /= "rejected"
     /\ \A i \in Slots, event \in {"close", "error"} :
          ProcEvent(i, event) => settledAfterProcess(event) /= "rejected"]_vars

\* C13 as stated: the "compiler not found" message is shown at most once.
C13_NotifiedAtMostOnce ==
  notified <= 1

\* C13 amended: the message is shown once by each initialisation and each
\* configuration change that ends with no compiler path resolved, and by no
\* other step (no validation shows it); the count stops at MaxNotified.
C13_NotifiedPerFailedResolution ==
  [][IF /\ Initialized \/ \E s \in SettingsInputs : DidChangeConfiguration(s)
        /\ voltaCompilerPath' = NoPath
     THEN notified' = Min(notified + 1, MaxNotified)
     ELSE notified' = notified]_vars

C13_Witness ==
  /\ notified = 2
  /\ voltaCompilerPath = NoPath
  /\ \E u \in URIs : u \in everStarted

NoReading ==
  [present |-> FALSE, lead |-> FALSE, line |-> 0, col |-> 0, col2 |-> -1,
   tag |-> "", message |-> << >>]
Read(lead, line, col, col2, tag, message) ==
  [present |-> TRUE, lead |-> lead, line |-> line, col |-> col, col2 |-> col2,
   tag |-> tag, message |-> message]
Reading(l) ==
  CASE l = SampleLines.RangeLine -> Read(FALSE, 3, 5, 7, "error", << "b", "a", "d" >>)
    [] l = SampleLines.PointLine -> Read(FALSE, 10, 2, -1, "warning", << "u", "n", "u", "s", "e", "d" >>)
    [] l = SampleLines.ZeroEndLine -> Read(FALSE, 1, 4, 0, "error", << "x" >>)
    [] l = SampleLines.PaddedLine -> Read(FALSE, 0, 0, -1, "warning", << "p", "a", "d" >>)
    [] l = SampleLines.BlankMessageLine -> Read(FALSE, 3, 5, -1, "error", << >>)
    [] l = SampleLines.CarriageLine -> Read(FALSE, 2, 1, -1, "error", << "c", "r" >>)
    [] l = SampleLines.PrefixedLine -> Read(TRUE, 3, 5, -1, "error", << "x" >>)
    [] l = SampleLines.ShiftedLine -> Read(TRUE, 2, 3, -1, "error", << "y" >>)
    [] OTHER -> NoReading

RECURSIVE Readings(_)
Readings(ls) ==      \* the readings of the lines that hold a fragment, in order
  IF ls = << >> THEN << >>
  ELSE (IF Reading(ls[1]).present THEN << Reading(ls[1]) >> ELSE << >>)
         \o Readings(Tail(ls))

\* C15: the parser works line by line: each line of stderr that matches the
\* pattern yields exactly one Diagnostic, whose line is the parsed line number
\* minus one; a line that does not match yields none; the Diagnostics come in
\* the order of the lines.
C15_OneDiagnosticPerMatchingLine ==
  parser.ran =>
    LET rs == Readings(parser.input)
        ds == parser.diagnostics
    IN  /\ Len(ds) = Len(rs)
        /\ \A i \in 1..Len(rs) : ds[i].line = rs[i].line - 1

C15_Witness ==
  /\ parser.ran
  /\ parser.input = << SampleLines.PointLine, SampleLines.RangeLine >>
  /\ Len(parser.diagnostics) = 2
  /\ parser.diagnostics[1].line = 9
  /\ parser.diagnostics[2].line = 2


\* C16: the range of a Diagnostic starts at character col, the parsed column
\* as it is, and ends at character col2 when the line has one (a col2 of 0
\* included), else at col + 1; start and end lie on the same line.
C16_ColumnsAsParsed ==
  parser.ran =>
    LET rs == Readings(parser.input)
        ds == parser.diagnostics
    IN  /\ Len(ds) = Len(rs)
        /\ \A i \in 1..Len(rs) :
             /\ ds[i].start = rs[i].col
             /\ ds[i].end = IF rs[i].col2 /= -1 THEN rs[i].col2 ELSE rs[i].col + 1
             /\ ds[i].endLine = ds[i].line

C16_Witness ==
  /\ parser.ran
  /\ parser.input = << SampleLines.ZeroEndLine, SampleLines.PointLine >>
  /\ Len(parser.diagnostics) = 2
  /\ parser.diagnostics[1].start = 4
  /\ parser.diagnostics[1].end = 0
  /\ parser.diagnostics[2].start = 2
  /\ parser.diagnostics[2].end = 3

\* C17: the severity of a Diagnostic is Error exactly when the tag of its line
\* is 'error' and Warning exactly when it is 'warning'; a line with another
\* tag yields no Diagnostic; the message is the text after the tag without
\* the whitespace around it.
C17_SeverityAndMessage ==
  parser.ran =>
    LET rs == Readings(parser.input)
        ds == parser.diagnostics
    IN  /\ Len(ds) = Len(rs)
        /\ \A i \in 1..Len(rs) :
             /\ ds[i].severity = "Error" <=> rs[i].tag = "error"
             /\ ds[i].severity = "Warning" <=> rs[i].tag = "warning"
             /\ ds[i].message = rs[i].message
             /\ ds[i].message /= << >> =>
                  /\ ds[i].message[1] \notin Spaces
                  /\ ds[i].message[Len(ds[i].message)] \notin Spaces

C17_Witness ==
  /\ parser.ran
  /\ parser.input = << SampleLines.PaddedLine, SampleLines.NoteLine >>
  /\ Len(parser.diagnostics) = 1
  /\ parser.diagnostics[1].severity = "Warning"
  /\ parser.diagnostics[1].message = << "p", "a", "d" >>

\* C18: the grammar is exact: only a line that is a fragment
\* :<line>:<col>[-<col2>]: (error|warning): <message> from its first character
\* yields a Diagnostic; a line that holds such a fragment after other text
\* (a file name, a banner) is ignored.
C18_FragmentAfterTextIgnored ==
  parser.ran =>
    Len(parser.diagnostics) =
      Cardinality({i \in 1..Len(parser.input) :
                     Reading(parser.input[i]).present /\ ~Reading(parser.input[i]).lead})


\* C18 as the code has it: the pattern is searched for anywhere in the line.
\* A line that holds a fragment after other text yields the Diagnostic of that
\* fragment; only a line that holds no fragment at all is ignored.
C18_FragmentAnywhereYields ==
  parser.ran =>
    /\ Len(parser.diagnostics) =
         Cardinality({i \in 1..Len(parser.input) : Reading(parser.input[i]).present})
    /\ \A i \in 1..Len(parser.input) :
         LET r == Reading(parser.input[i])
             k == Len(Readings(SubSeq(parser.input, 1, i)))
         IN  r.present /\ r.lead =>
               /\ k <= Len(parser.diagnostics)
               /\ parser.diagnostics[k].line = r.line - 1
               /\ parser.diagnostics[k].start = r.col
               /\ parser.diagnostics[k].message = r.message

C18_Witness ==
  /\ parser.ran
  /\ parser.input = << SampleLines.PrefixedLine, SampleLines.BannerLine >>
  /\ Len(parser.diagnostics) = 1
  /\ parser.diagnostics[1].line = 2
  /\ parser.diagnostics[1].start = 5


\* The commas of the line of the cursor that lie after the last '(' before
\* the cursor and before the cursor, counted character by character.
CommasInCall(text, line, character) ==
  LET l == split(getText(text))[line + 1]
      before == {k \in 1..Len(l) : k <= character}
      parens == {k \in before : l[k] = "("}
  IN  Cardinality({k \in before : l[k] = "," /\ \A q \in parens : q < k})

\* C19: for a signature with n >= 1 parameters the active parameter is
\* min(c, n - 1), where c is the number of commas between the '(' of the call
\* and the cursor, so it lies in 0..n-1.  The first conjunct is about the
\* count the handler takes when it asks the compiler, the second about the
\* answer it builds from it.
C19_ActiveParameter ==
  [][/\ \A line \in 0..MaxLine, character \in 0..MaxCol :
          /\ Request("signatureHelp", URISeq[1], line, character)
          /\ request'.stage = "spawned"
          => request'.commas = CommasInCall(documents[URISeq[1]].text, line, character)
     /\ \A stdout \in Stdouts :
          /\ QueryEvent("close", stdout)
          /\ request'.reply.kind = "signature"
          /\ Len(request'.reply.signatures[1].parameters) >= 1
          => LET n == Len(request'.reply.signatures[1].parameters)
                 c == request.commas
             IN  /\ request'.reply.activeParameter = (IF c < n - 1 THEN c ELSE n - 1)
                 /\ request'.reply.activeParameter \in 0..(n - 1)]_vars

\* The cursor after 'f(1,' in text A: one comma; the compiler answers with
\* the two-parameter function, or with the one-parameter one.
C19_Witness ==
  /\ request.stage = "done"
  /\ request.method = "signatureHelp"
  /\ documents[request.uri].text = "A"
  /\ request.line = 1 /\ request.character = 4
  /\ request.commas = 1
  /\ request.reply.kind = "signature"
  /\ request.promise.value.result = FunctionSymbol
  /\ request.reply.activeParameter = 1

\* C20: a successful signature help holds exactly one signature, whose label
\* is the name followed by the parameter names, joined by commas, in
\* parentheses, with one label/documentation pair per parameter in the order
\* of the declaration; activeSignature is 0.
C20_SignatureShape ==
  request.stage = "done" /\ request.reply.kind = "signature" =>
    LET result == request.promise.value.result
        reply == request.reply
        sig == reply.signatures[1]
    IN  /\ Len(reply.signatures) = 1
        /\ reply.activeSignature = 0
        /\ Len(sig.parameters) = Len(result.parameters)
        /\ \A k \in 1..Len(result.parameters) :
             /\ sig.parameters[k].label = result.parameters[k].name
             /\ sig.parameters[k].documentation =
                  (IF result.parameters[k].documentation = "" THEN Undefined
                   ELSE result.parameters[k].documentation)
        /\ result = FunctionSymbol => sig.label = << "f", "(", "a", ",", " ", "b", ")" >>
        /\ result = UnarySymbol => sig.label = << "g", "(", "x", ")" >>
        /\ result = ProcedureSymbol => sig.label = << "g", "(", ")" >>
        /\ result \in {FunctionSymbol, UnarySymbol, ProcedureSymbol}

\* The cursor right after 'g(' of text B and a one-parameter function.
C20_Witness ==
  /\ request.stage = "done"
  /\ request.method = "signatureHelp"
  /\ documents[request.uri].text = "B"
  /\ request.line = 0 /\ request.character = 2
  /\ request.reply.kind = "signature"
  /\ request.promise.value.result = UnarySymbol
  /\ request.reply.signatures[1].label = << "g", "(", "x", ")" >>
  /\ request.reply.activeParameter = 0


\* C21: a Hover or Definition request at the 0-indexed cursor (line L,
\* character C) issues its symbol query with line L + 1 and column C.
C21_PositionConversion ==
  [][\A method \in {"hover", "definition"},
        line \in 0..MaxLine, character \in 0..MaxCol :
        /\ Request(method, URISeq[1], line, character)
        /\ request'.stage = "spawned"
        => /\ request'.args.line = line + 1
           /\ request'.args.column = character]_vars

C21_Witness ==
  /\ request.stage = "spawned"
  /\ request.method = "definition"
  /\ request.line = 2 /\ request.character = 3
  /\ request.args.line = 3 /\ request.args.column = 3

\* C22: a Definition request whose symbol query succeeds is answered with a
\* location that has the URI of the request and a range that starts and ends
\* at the cursor of the request; when the query fails no location is returned.
C22_DefinitionIsCursor ==
  request.stage = "done" /\ request.method = "definition" =>
    LET symbolInfo == request.promise.value
        reply == request.reply
    IN  IF ~symbolInfo.null /\ symbolInfo.success /\ symbolInfo.result.present
        THEN /\ reply.kind = "location"
             /\ reply.uri = request.uri
             /\ reply.line = request.line /\ reply.character = request.character
             /\ reply.endLine = request.line /\ reply.endCharacter = request.character
        ELSE reply.kind = "null"

C22_Witness ==
  /\ request.stage = "done"
  /\ request.method = "definition"
  /\ request.line = 1 /\ request.character = 4
  /\ request.promise.value.result = FunctionSymbol
  /\ request.reply.kind = "location"
  /\ request.reply.uri = URISeq[1]
  /\ request.reply.line = 1 /\ request.reply.endCharacter = 4


\* The resolution order as stated.  A path is set when it is neither empty
\* nor the default 'volta', which asks for the lookup in PATH.
StatedResolution(e, configured) ==
  LET common == {i \in 1..Len(CommonPaths) : CommonPaths[i] \in e.exec}
  IN  IF configured \notin {"", "volta"} /\ configured \in e.exec THEN configured
      ELSE IF e.which /= "" /\ e.which \in e.exec THEN e.which
      ELSE IF common /= {} THEN CommonPaths[CHOOSE i \in common : \A j \in common : i <= j]
      ELSE NoPath

\* C23: the compiler path is the configured path when that is set and
\* executable, otherwise the PATH-resolved 'volta' when executable, otherwise
\* the first executable conventional location, otherwise unresolved; the
\* resolution always yields one of these.
C23_ResolutionOrder ==
  phase = "running" =>
    /\ voltaCompilerPath = StatedResolution(env, globalSettings)
    /\ voltaCompilerPath = NoPath \/ voltaCompilerPath \in env.exec

C23_Witness ==
  /\ phase = "running"
  /\ globalSettings = "/custom/b"
  /\ env.which = "/opt/volta"
  /\ env.exec = {"/usr/bin/volta", "~/.local/bin/volta"}
  /\ voltaCompilerPath = "/usr/bin/volta"


\* C24: two validation calls in progress at the same time never use the same
\* scratch file.
C24_DistinctScratchFiles ==
  \A i, j \in Slots :
    /\ i /= j
    /\ validations[i].stage = "proc"
    /\ validations[j].stage = "proc"
    => validations[i].file /= validations[j].file


\* C25: at most one validation timer is pending per document URI, and it is
\* the one validationTimers holds for the URI; a content change cancels the
\* timer still pending for its URI before it schedules the new one.
C25_OneTimerPerURI ==
  \A u \in URIs :
    /\ Cardinality({x \in timers : x.uri = u}) <= 1
    /\ \A x \in timers : x.uri = u => validationTimers[u] = x.id

\* A change to text B has replaced the timer of the text A the document was
\* opened with, whose first validation is still in progress.
C25_Witness ==
  \E u \in URIs :
    /\ documents[u].open /\ documents[u].text = "B"
    /\ sinceChange[u] = 0 /\ debounced[u] = 0
    /\ \E i \in Slots : validations[i].uri = u /\ validations[i].text = "A"
    /\ \E x \in timers : x.uri = u /\ x.snapshot = "B" /\ x.left = QuietPeriod
    /\ Cardinality({x \in timers : x.uri = u}) = 1


\* The '(' before the cursor (0-indexed character) of the line l that no ')'
\* before the cursor closes, as indices into l.
UnmatchedParens(l, character) ==
  LET before == {k \in 1..Len(l) : k <= character}
      opens(a, b) == Cardinality({k \in before : a < k /\ k <= b /\ l[k] = "("})
      closes(a, b) == Cardinality({k \in before : a < k /\ k <= b /\ l[k] = ")"})
  IN  {p \in before : l[p] = "(" /\ \A q \in before : q > p => closes(p, q) <= opens(p, q)}

\* C26: signature help is given for the call opened by the nearest '(' before
\* the cursor that has no matching ')' before the cursor; when every '(' is
\* closed, or there is none, no signature help is returned (so no symbol
\* query is made).
C26_NearestUnmatchedParen ==
  [][\A line \in 0..MaxLine, character \in 0..MaxCol :
        /\ Request("signatureHelp", URISeq[1], line, character)
        /\ request'.stage = "spawned"
        => LET l == split(getText(documents[URISeq[1]].text))[line + 1]
               unmatched == UnmatchedParens(l, character)
           IN  /\ unmatched /= {}
               /\ lastIndexOf(substring(l, 0, character), "(") + 1
                    = CHOOSE p \in unmatched : \A q \in unmatched : q <= p]_vars


\* The name the text before the cursor ends with, before its last '('.
CandidateName(l, character) ==
  LET textBeforeCursor == substring(l, 0, character)
  IN  matchTrailingWord(trim(substring(textBeforeCursor, 0,
                                       lastIndexOf(textBeforeCursor, "("))))

\* The 0-indexed columns of l at which name starts as the name of a function
\* definition: after 'fn' and whitespace, and before optional whitespace and
\* a '('.
DefinedAt(l, name) ==
  {p \in 0..Len(l) :
     /\ StartsAt(l, p + 1, name)
     /\ LET e == p + 1 + Len(name)        \* index after the name
            c == RunEnd(l, e, Spaces)
        IN  /\ e <= Len(l) /\ l[e] \notin WordChars
            /\ c <= Len(l) /\ l[c] = "("
     /\ \E k \in 1..p : /\ StartsAt(l, k, << "f", "n" >>)
                        /\ k + 2 <= p
                        /\ \A j \in (k + 2)..p : l[j] \in Spaces}

\* C27: the position signature help asks the compiler about is that of the
\* first line of the document that defines a function with the candidate
\* name: the line counted from 1, the column that of the start of the
\* function name after the 'fn' keyword.
C27_DefinitionPosition ==
  [][\A line \in 0..MaxLine, character \in 0..MaxCol :
        /\ Request("signatureHelp", URISeq[1], line, character)
        /\ request'.stage = "spawned"
        => LET lines == split(getText(documents[URISeq[1]].text))
               name == CandidateName(lines[line + 1], character)
               hits == {i \in 1..Len(lines) : DefinedAt(lines[i], name) /= {}}
           IN  /\ hits /= {}
               /\ request'.args.line = CHOOSE i \in hits : \A j \in hits : i <= j
               /\ request'.args.column \in DefinedAt(lines[request'.args.line], name)]_vars


\* C28: signature help spawns the symbol query only after its textual steps
\* have succeeded.  When the text before the cursor has no '(', or no
\* identifier ends before the last '(' (blanks apart), or no line of the
\* document defines a function of that name, the handler answers null and no
\* process is started.  The cursor is on a line of the document.
C28_QueryOnlyAfterTextualSteps ==
  [][\A line \in 0..MaxLine, character \in 0..MaxCol :
        LET lines == split(getText(documents[URISeq[1]].text))
            l == lines[line + 1]
            before == {k \in 1..Len(l) : k <= character}
            parens == {k \in before : l[k] = "("}
            paren == CHOOSE p \in parens : \A q \in parens : q <= p
            named == \E k \in 1..(paren - 1) :
                       /\ l[k] \in WordChars
                       /\ \A j \in (k + 1)..(paren - 1) : l[j] \in Spaces
            name == CandidateName(l, character)
            defined == \E i \in 1..Len(lines) : DefinedAt(lines[i], name) /= {}
        IN  /\ Request("signatureHelp", URISeq[1], line, character)
            /\ line + 1 <= Len(lines)
            /\ parens = {} \/ ~named \/ ~defined
            => /\ request'.stage = "done"
               /\ request'.reply = NullReply
               /\ request'.args = NoArgs
               /\ request'.promise = Pending]_vars

\* The cursor after 'g(f(' in text B: no line defines f.
C28_Witness ==
  /\ voltaCompilerPath /= NoPath
  /\ request.stage = "done"
  /\ request.method = "signatureHelp"
  /\ documents[request.uri].open /\ documents[request.uri].text = "B"
  /\ request.line = 0 /\ request.character = 4
  /\ request.reply = NullReply
  /\ request.args = NoArgs
  /\ ~request.promise.settled


\* C29: a change, close or configuration-change event cancels nothing but a
\* pending debounce timer.  A validation whose compiler process has been
\* spawned stays in progress with its scratch file in place, and a symbol
\* query that has been spawned stays as it is.
C29_OnlyTimersCancelled ==
  [][(\/ DidOpenTextDocument(URISeq[1], "A")
      \/ DidChangeTextDocument(URISeq[1], "A")
      \/ DidCloseTextDocument(URISeq[1])
      \/ \E s \in SettingsInputs : DidChangeConfiguration(s))
     => /\ \A i \in Slots :
             validations[i].stage = "proc" =>
               /\ validations'[i].stage = "proc"
               /\ validations'[i].uri = validations[i].uri
               /\ validations'[i].text = validations[i].text
               /\ validations'[i].path = validations[i].path
               /\ validations'[i].file = validations[i].file
        /\ files' = files
        /\ request.stage = "spawned" => request' = request
        /\ published' = published]_vars

\* The document was closed while the compiler runs for a validation of it
\* and for a query about it: both are still in progress.
C29_Witness ==
  /\ ~documents[URISeq[1]].open
  /\ timers = {}
  /\ request.stage = "spawned"
  /\ request.uri = URISeq[1]
  /\ \E i \in Slots :
       /\ validations[i].stage = "proc"
       /\ validations[i].uri = URISeq[1]
       /\ validations[i].file \in files


\* C30: a validation or a symbol query whose compiler process never exits
\* still ends after a bounded wait: the validation leaves the stage in which
\* it waits for the process and its scratch file is removed, and the query
\* is answered.
C30_BoundedWait ==
  /\ \A i \in Slots :
       validations[i].stage = "proc" ~>
         (validations[i].stage /= "proc" /\ validations[i].file \notin files)
  /\ request.stage = "spawned" ~> request.stage = "done"

(***************************************************************************)
(* Properties of the settings cache and of the timer map.                  *)
(***************************************************************************)
\* C31: the settings cache holds entries for open documents only; the close
\* of a document removes its entry; and a configuration change, for a client
\* with the configuration capability, leaves in the cache nothing but the
\* requests that the re-validation of the open documents has just issued
\* (pending, and awaited by no validation that was already in progress).
C31_SettingsCache ==
  /\ [](\A u \in URIs : documentSettings[u] /= 0 => documents[u].open)
  /\ [][\A u \in URIs : DidCloseTextDocument(u) => documentSettings'[u] = 0]_vars
  /\ [][\A s \in SettingsInputs :
          (DidChangeConfiguration(s) /\ hasConfigurationCapability) =>
            \A u \in URIs :
              documentSettings'[u] /= 0 =>
                /\ documents[u].open
                /\ voltaCompilerPath' /= voltaCompilerPath
                /\ promises'[documentSettings'[u]] = "pending"
                /\ \A i \in Slots : validations[i].promise /= documentSettings'[u]]_vars

\* A configuration change that left the compiler path as it was has emptied
\* the cache of a client with the capability: the document is open, its
\* debounced validation has run, and its settings are no longer cached.
C31_Witness ==
  /\ hasConfigurationCapability
  /\ \E u \in URIs :
       /\ documents[u].open /\ u \in everStarted
       /\ validationTimers[u] = 0 /\ debounced[u] = 1
       /\ documentSettings[u] = 0

\* C32: the timer map has an entry for a URI exactly when a timer of that URI
\* is pending (neither fired nor cancelled), the entry is that timer, and the
\* URI is an open document; a timer that fires is the one its URI's entry
\* names, and it removes that entry and no other.
C32_TimerMapConsistent ==
  /\ [](/\ \A u \in URIs :
             validationTimers[u] /= 0 <=> \E x \in timers : x.uri = u
        /\ \A x \in timers :
             /\ validationTimers[x.uri] = x.id
             /\ documents[x.uri].open)
  /\ [][\A x \in timers :
          TimerFire(x) =>
            /\ validationTimers[x.uri] = x.id
            /\ validationTimers' = [validationTimers EXCEPT ![x.uri] = 0]
            /\ timers' = timers \ {x}]_vars

\* The timer of an open document has just fired: its entry is gone and the
\* validation it started is under way.
C32_Witness ==
  \E u \in URIs, i \in Slots :
    /\ documents[u].open /\ documents[u].text = "B"
    /\ validationTimers[u] = 0 /\ timers = {}
    /\ sinceChange[u] = QuietPeriod /\ debounced[u] = 1
    /\ validations[i].uri = u /\ validations[i].stage \in {"settings", "ready"}
    /\ validations[i].text = "B"

\* C33: once the close of a document has been handled, nothing is published
\* for it until it is opened again: no validation pass publishes for a
\* document that is closed, whenever the pass was started.
C33_NoPublishAfterClose ==
  [][\A i \in Slots, event \in {"close", "error"} :
       ProcEvent(i, event) => documents[validations[i].uri].open]_vars

\* C34: a document that is opened for the first time and never edited is
\* validated once: the timer that the content-change event of the open
\* notification schedules starts no validation of a document that the open
\* event has validated already.
C34_OpenValidatesOnce ==
  [][\A x \in timers : TimerFire(x) => x.uri \notin everStarted]_vars

\* C35: a validation pass takes the text of its document at the step that
\* starts it (the open, the timer, the configuration change) and keeps it:
\* no step changes the text or the document of a pass in progress, and what
\* the pass publishes when its process exits is the result for that text,
\* whatever the document has become.
C35_TextTakenAtStart ==
  /\ [][\A i \in Slots :
          (validations[i].stage = "idle" /\ validations'[i].stage /= "idle") =>
            validations'[i].text = documents'[validations'[i].uri].text]_vars
  /\ [][\A i \in Slots :
          (validations[i].stage /= "idle" /\ validations'[i].stage /= "idle") =>
            /\ validations'[i].text = validations[i].text
            /\ validations'[i].uri = validations[i].uri]_vars
  /\ [][\A i \in Slots :
          ProcEvent(i, "close") =>
            published'[validations[i].uri] =
              Shown(CheckDiagnostics(validations[i].text))]_vars

\* A pass that took text A is writing its scratch file or running the
\* compiler while the document has been edited to text B.
C35_Witness ==
  \E i \in Slots :
    /\ validations[i].stage \in {"write", "proc"}
    /\ validations[i].text = "A"
    /\ documents[validations[i].uri].open
    /\ documents[validations[i].uri].text = "B"

C37_WellFormedRange ==
  parser.ran =>
    \A k \in 1..Len(parser.diagnostics) :
      /\ parser.diagnostics[k].line >= 0
      /\ parser.diagnostics[k].end >= parser.diagnostics[k].start

\* C38: a symbol query and a check resolve once, with the outcome of the
\* first event of their process.  The first event settles a promise that was
\* not settled; the 'close' event that follows the 'error' event of a failed
\* launch leaves the promise and its value as they were, and it changes
\* neither the answer to the request nor the diagnostics published.
C38_FirstEventDecides ==
  /\ [][\A event \in {"close", "error"}, stdout \in Stdouts :
          QueryEvent(event, stdout) =>
            /\ ~request.promise.settled /\ request'.promise.settled
            /\ event = "error" =>
                 request'.promise.value = Envelope(FALSE, NoSymbol, "SPAWN_ERROR")]_vars
  /\ [][QueryLateClose =>
          /\ request'.promise = request.promise
          /\ request'.reply = request.reply]_vars
  /\ [][\A i \in Slots :
          LaunchError(i) =>
            /\ ~validations[i].result.settled
            /\ validations'[i].result = [settled |-> TRUE, value |-> << LaunchFailure >>]
            /\ published'[validations[i].uri] = Shown(<< LaunchFailure >>)]_vars
  /\ [][\A i \in Slots :
          LateClose(i) =>
            /\ validations'[i].result = validations[i].result
            /\ published' = published]_vars

\* Both late 'close' events have been handled: the query's promise still
\* holds the launch failure, and so does the promise of the check, whose
\* diagnostic is the one on display.
C38_Witness ==
  /\ request.stage = "done" /\ ~request.late
  /\ request.promise = [settled |-> TRUE, value |-> Envelope(FALSE, NoSymbol, "SPAWN_ERROR")]
  /\ \E i \in Slots :
       /\ validations[i].stage = "idle"
       /\ validations[i].result = [settled |-> TRUE, value |-> << LaunchFailure >>]
  /\ published[URISeq[1]] = Shown(<< LaunchFailure >>)

====
